---- MODULE Spec2Model ----
(***************************************************************************)
(* Model of src/app.py: a telemetry forwarder that validates a connection  *)
(* string at import time, then runs main() under asyncio.run: it creates   *)
(* the cloud client, connects, optionally warms up a serial sensor and     *)
(* loops forever obtaining one record per tick and handing it to           *)
(* send_data.                                                              *)
(*                                                                         *)
(* Text is modelled as a sequence of one-character strings so that the     *)
(* regular expression, str.lower and str.split are computed character by   *)
(* character.  A Python value that may be a str or a bytes object is a     *)
(* record [type, chars].                                                   *)
(***************************************************************************)
EXTENDS Integers, Sequences, FiniteSets, TLC

VARIABLES
    CONNECTION_STRING,  \* os.getenv result: [present, value]
    sys_argv,           \* sys.argv: <<program>> or <<program, argument>>
    pc,                 \* position of the single thread of control
    SIMULATE_DATA,      \* the global flag: "unbound", "True" or "False"
    device_client,      \* main's local: "unbound", "created" or "connected"
    serial1,            \* send_recurring_telemetry's local: 0 = unbound,
                        \* n = the handle returned by the n-th serial open
    i,                  \* the warm-up loop counter
    exc,                \* the exception in flight: [kind, origin]
    handler_entries,    \* times the except clause of main was entered
    shutdown_calls,     \* calls of device_client.shutdown()
    serial_opens,       \* calls of serial.Serial(...)
    serial_reads,       \* calls of serial1.readline() that returned a line
    last_line,          \* the line returned by the latest readline
    format_log,         \* one entry per call of format_message
    send_log,           \* one entry per call of send_data
    msg,                \* the envelope built by the latest send_data
    publish_calls,      \* calls of device_client.send_message
    ticks,              \* completed iterations of the while loop
    clock_ms,           \* time spent in time.sleep, in milliseconds
    stdout,             \* the printed lines: [line, data]
    exit_code           \* <<>> while running, <<code>> once the process ended

vars == <<CONNECTION_STRING, sys_argv, pc, SIMULATE_DATA, device_client,
          serial1, i, exc, handler_entries, shutdown_calls, serial_opens,
          serial_reads, last_line, format_log, send_log, msg, publish_calls,
          ticks, clock_ms, stdout, exit_code>>

----------------------------------------------------------------------------
(* Bounds of the model *)

MaxTicks == 3

MaxFrags == 6

----------------------------------------------------------------------------
(* Program constants *)

MESSAGE_TIMESPAN == 2000

WarmupReadingsShort == 15 - 1

\* range(0, 15) of the warm-up loop.
WarmupReadings == 15

----------------------------------------------------------------------------
(* Text helpers *)

HostNameEq == <<"H", "o", "s", "t", "N", "a", "m", "e", "=">>

DeviceIdEq == <<"D", "e", "v", "i", "c", "e", "I", "d", "=">>

DotStar == ".*"

\* The pattern of re.search in is_correct_connection_string.
ConnectionStringPatternNoTrailer == HostNameEq \o <<DotStar, ";">> \o DeviceIdEq \o <<DotStar>>

ConnectionStringPattern == HostNameEq \o <<DotStar, ";">> \o DeviceIdEq \o <<DotStar, ";">>

\* '.' of Python's re matches every character except a line break.
DotMatches(c) == c # "\n"

RECURSIVE re_match_here(_, _, _, _)
\* Backtracking match of pattern p from element k against s from position j.
re_match_here(p, k, s, j) ==
    IF k > Len(p) THEN TRUE
    ELSE IF p[k] = DotStar
         THEN \E n \in j..(Len(s) + 1) :
                 /\ \A q \in j..(n - 1) : DotMatches(s[q])
                 /\ re_match_here(p, k + 1, s, n)
         ELSE /\ j <= Len(s)
              /\ s[j] = p[k]
              /\ re_match_here(p, k + 1, s, j + 1)

\* re.search: a match starting anywhere in s.
re_search(p, s) == \E j \in 1..(Len(s) + 1) : re_match_here(p, 1, s, j)

\* is_correct_connection_string: re.search raises TypeError on None.
is_correct_connection_string(cs) ==
    IF ~cs.present
    THEN [exc |-> "TypeError", value |-> FALSE]
    ELSE [exc |-> "none", value |-> re_search(ConnectionStringPattern, cs.value)]

LowerChar(c) ==
    CASE c = "T" -> "t"
      [] c = "R" -> "r"
      [] c = "U" -> "u"
      [] c = "E" -> "e"
      [] c = "F" -> "f"
      [] c = "A" -> "a"
      [] c = "L" -> "l"
      [] c = "S" -> "s"
      [] OTHER -> c

str_lower_identity(s) == s

\* str.lower
str_lower(s) == [k \in 1..Len(s) |-> LowerChar(s[k])]

TrueText == <<"t", "r", "u", "e">>

\* The value main assigns to SIMULATE_DATA.
simulate_flag(argv) ==
    IF Len(argv) > 1
    THEN (IF str_lower(argv[2]) = TrueText THEN "True" ELSE "False")
    ELSE "True"

RECURSIVE str_split(_, _)
\* str.split(sep) for a one-character separator.
str_split(s, sep) ==
    IF \A k \in 1..Len(s) : s[k] # sep
    THEN <<s>>
    ELSE LET first == CHOOSE k \in 1..Len(s) :
                        /\ s[k] = sep
                        /\ \A q \in 1..(k - 1) : s[q] # sep
         IN  <<SubSeq(s, 1, first - 1)>> \o str_split(SubSeq(s, first + 1, Len(s)), sep)

NoValue == [gas |-> <<>>, co2 |-> <<>>, tvoc |-> <<>>]

\* format_message: bytes.split(",") raises TypeError (str separator on a
\* bytes object); a str with fewer than three fields raises IndexError.
format_message(data) ==
    IF data.type = "bytes"
    THEN [exc |-> "TypeError", value |-> NoValue]
    ELSE LET data_arr == str_split(data.chars, ",")
         IN  IF Len(data_arr) < 3
             THEN [exc |-> "IndexError", value |-> NoValue]
             ELSE [exc |-> "none",
                   value |-> [gas |-> data_arr[1], co2 |-> data_arr[2], tvoc |-> data_arr[3]]]

----------------------------------------------------------------------------
(* Inputs *)

Fragments == {HostNameEq, <<";">>, DeviceIdEq, <<"x">>, <<"\n">>}

RECURSIVE Flatten(_)
Flatten(ss) == IF ss = <<>> THEN <<>> ELSE Head(ss) \o Flatten(Tail(ss))

FragmentStrings ==
    {Flatten(fs) : fs \in UNION {[1..n -> Fragments] : n \in 0..MaxFrags}}

Present(s) == [present |-> TRUE, value |-> s]

Absent == [present |-> FALSE, value |-> <<>>]

\* The connection strings of the process runs.
RunConnectionStrings ==
    { Absent,
      Present(<<>>),
      Present(<<"F", "o", "o", "=", "1">>),
      Present(HostNameEq \o <<";">> \o DeviceIdEq \o <<";">>),
      Present(HostNameEq \o <<"x", ";">> \o DeviceIdEq \o <<"x", ";">>),
      Present(HostNameEq \o <<"x", ";">> \o DeviceIdEq \o <<"x">>) }

Program == <<"a", "p", "p", ".", "p", "y">>

Arguments ==
    { <<"t", "r", "u", "e">>,
      <<"T", "R", "U", "E">>,
      <<"T", "r", "u", "e">>,
      <<"t", "R", "u", "E">>,
      <<"f", "a", "l", "s", "e">>,
      <<"F", "A", "L", "S", "E">>,
      <<"t", "r", "u", "e", " ">>,
      <<"1">>,
      <<>> }

Argvs == {<<Program>>} \cup {<<Program, a>> : a \in Arguments}

Bytes(s) == [type |-> "bytes", chars |-> s]

\* serial1.readline() returns a bytes object ending with the line break.
SerialLines ==
    { Bytes(<<"1", ",", "2", ",", "3", "\n">>),
      Bytes(<<"1", ",", "2", "\n">>),
      Bytes(<<"\n">>) }

\* generate_mock_temp_hum_data returns a ready-made record.
generate_mock_temp_hum_data ==
    { [temperature |-> 20, humidity |-> 60],
      [temperature |-> 21, humidity |-> 61] }

NoLine == Bytes(<<>>)

NoExc == [kind |-> "none", origin |-> "none"]

NoMsg == [data |-> <<>>, content_encoding |-> "", content_type |-> ""]

----------------------------------------------------------------------------
(* Initial states *)

InitRest ==
    /\ pc = "module"
    /\ SIMULATE_DATA = "unbound"
    /\ device_client = "unbound"
    /\ serial1 = 0
    /\ i = 0
    /\ exc = NoExc
    /\ handler_entries = 0
    /\ shutdown_calls = 0
    /\ serial_opens = 0
    /\ serial_reads = 0
    /\ last_line = NoLine
    /\ format_log = <<>>
    /\ send_log = <<>>
    /\ msg = NoMsg
    /\ publish_calls = 0
    /\ ticks = 0
    /\ clock_ms = 0
    /\ stdout = <<>>
    /\ exit_code = <<>>

Init ==
    /\ CONNECTION_STRING \in RunConnectionStrings
    /\ sys_argv \in Argvs
    /\ InitRest

InitValidator ==
    /\ CONNECTION_STRING \in {Absent} \cup {Present(s) : s \in FragmentStrings}
    /\ sys_argv = <<Program>>
    /\ InitRest

----------------------------------------------------------------------------
(* Helpers of the actions *)

Console(out, line, data) == Append(out, [line |-> line, data |-> data])

\* "except Exception" does not catch KeyboardInterrupt (a BaseException).
CaughtByExceptException(kind) == kind # "KeyboardInterrupt"

\* An exception raised inside the try block of main.
Raise(kind, origin) ==
    /\ exc' = [kind |-> kind, origin |-> origin]
    /\ IF CaughtByExceptException(kind)
       THEN /\ pc' = "except"
            /\ exit_code' = exit_code
       ELSE /\ pc' = "exited"
            /\ \E code \in {1, 130} : exit_code' = <<code>>

Envelope(telemetry_data) ==
    [data |-> telemetry_data, content_encoding |-> "utf-8", content_type |-> "application/json"]

\* send_data(telemetry_data, device_client), called with console output out.
send_data(out, telemetry_data, source) ==
    /\ stdout' = Console(out, "telemetry_data", telemetry_data)
    /\ msg' = Envelope(telemetry_data)
    /\ send_log' = Append(send_log, [data |-> telemetry_data, source |-> source])
    /\ publish_calls' = publish_calls  \* line 87: send_message is commented out

WhileTrueBroken == ticks < 1

\* The condition of "while True".
WhileTrue == TRUE

----------------------------------------------------------------------------
(* Actions *)

\* Lines 27-33: read the environment, validate, exit or go on to main.
ModuleLevel ==
    /\ pc = "module"
    /\ LET r == is_correct_connection_string(CONNECTION_STRING)
       IN  IF r.exc # "none"
           THEN /\ exc' = [kind |-> r.exc, origin |-> "validation"]
                /\ pc' = "exited"
                /\ exit_code' = <<1>>
                /\ stdout' = stdout
           ELSE IF ~r.value
           THEN /\ stdout' = Console(stdout, "Device connection string is not correct.", "")
                /\ pc' = "exited"
                /\ exit_code' = <<0>>
                /\ exc' = exc
           ELSE /\ stdout' = Console(stdout, "Device connection string is correct.", "")
                /\ pc' = "main"
                /\ exit_code' = exit_code
                /\ exc' = exc
    /\ UNCHANGED <<CONNECTION_STRING, sys_argv, SIMULATE_DATA, device_client, serial1, i,
                   handler_entries, shutdown_calls, serial_opens, serial_reads,
                   last_line, format_log, send_log, msg, publish_calls, ticks, clock_ms>>

\* Lines 38-50: set the mode, create the client, call send_recurring_telemetry.
MainStart ==
    /\ pc = "main"
    /\ SIMULATE_DATA' = simulate_flag(sys_argv)
    /\ LET out == Console(stdout, "SIMULATE_DATA: ", simulate_flag(sys_argv))
       IN  \E created \in BOOLEAN :
              IF created
              THEN /\ device_client' = "created"
                   /\ stdout' = Console(Console(Console(out, "argv: ", sys_argv),
                                    "IoTHub Device Client Recurring Telemetry Sample", ""),
                                    "Press Ctrl+C to exit", "")
                   /\ pc' = "connect"
                   /\ UNCHANGED <<exc, exit_code>>
              ELSE /\ device_client' = device_client
                   /\ stdout' = out
                   /\ Raise("ValueError", "create")
    /\ UNCHANGED <<CONNECTION_STRING, sys_argv, serial1, i, handler_entries,
                   shutdown_calls, serial_opens, serial_reads, last_line, format_log,
                   send_log, msg, publish_calls, ticks, clock_ms>>

\* Lines 63-64: connect, then enter the warm-up loop (live) or the while loop.
Connect ==
    /\ pc = "connect"
    /\ \E connected \in BOOLEAN :
          IF connected
          THEN /\ device_client' = "connected"
               /\ pc' = IF SIMULATE_DATA = "True" THEN "tick" ELSE "warmup"
               /\ UNCHANGED <<exc, exit_code>>
          ELSE /\ device_client' = device_client
               /\ Raise("ConnectionFailedError", "connect")
    /\ i' = 0
    /\ UNCHANGED <<CONNECTION_STRING, sys_argv, SIMULATE_DATA, serial1, handler_entries,
                   shutdown_calls, serial_opens, serial_reads, last_line, format_log,
                   send_log, msg, publish_calls, ticks, clock_ms, stdout>>

\* Lines 65-68: one iteration of the warm-up loop: open the device, read a line.
WarmupIteration ==
    /\ pc = "warmup"
    /\ stdout' = Console(stdout, "Reading data from serial port", "")
    /\ \E outcome \in {"open_fails", "read_fails", "line"}, ln \in SerialLines :
          CASE outcome = "open_fails" ->
                 /\ Raise("SerialException", "serial_open")
                 /\ UNCHANGED <<serial1, serial_opens, serial_reads, last_line, i>>
            [] outcome = "read_fails" ->
                 /\ serial_opens' = serial_opens + 1
                 /\ serial1' = serial_opens + 1
                 /\ Raise("SerialException", "serial_read")
                 /\ UNCHANGED <<serial_reads, last_line, i>>
            [] outcome = "line" ->
                 /\ serial_opens' = serial_opens + 1
                 /\ serial1' = serial_opens + 1
                 /\ serial_reads' = serial_reads + 1
                 /\ last_line' = ln
                 /\ i' = i + 1
                 /\ pc' = IF i + 1 < WarmupReadings THEN "warmup" ELSE "tick"
                 /\ UNCHANGED <<exc, exit_code>>
    /\ UNCHANGED <<CONNECTION_STRING, sys_argv, SIMULATE_DATA, device_client,
                   handler_entries, shutdown_calls, format_log, send_log, msg,
                   publish_calls, ticks, clock_ms>>

\* Lines 70-77: obtain this tick's record and hand it to send_data.
Tick ==
    /\ pc = "tick"
    /\ ticks < MaxTicks
    /\ IF SIMULATE_DATA = "True"
       THEN \E telemetry_data \in generate_mock_temp_hum_data :
               /\ send_data(Console(stdout, "Simulating data", ""), telemetry_data, "mock")
               /\ pc' = "sleep"
               /\ UNCHANGED <<serial_reads, last_line, format_log, exc, exit_code>>
       ELSE \E outcome \in {"read_fails", "line"}, ln \in SerialLines :
               IF outcome = "read_fails"
               THEN /\ Raise("SerialException", "serial_read")
                    /\ UNCHANGED <<serial_reads, last_line, format_log, stdout, msg,
                                   send_log, publish_calls>>
               ELSE LET r == format_message(ln)
                    IN  /\ serial_reads' = serial_reads + 1
                        /\ last_line' = ln
                        /\ format_log' = Append(format_log,
                               [arg |-> ln, read |-> serial_reads + 1, handle |-> serial1,
                                result |-> r])
                        /\ IF r.exc # "none"
                           THEN /\ Raise(r.exc, "format")
                                /\ UNCHANGED <<stdout, msg, send_log, publish_calls>>
                           ELSE /\ send_data(stdout, r.value, "serial")
                                /\ pc' = "sleep"
                                /\ UNCHANGED <<exc, exit_code>>
    /\ UNCHANGED <<CONNECTION_STRING, sys_argv, SIMULATE_DATA, device_client, serial1, i,
                   handler_entries, shutdown_calls, serial_opens, ticks, clock_ms>>

\* Lines 78 and 70: sleep MESSAGE_TIMESPAN/1000 seconds, then test the loop
\* condition; line 51 (the prompt) follows the loop.
Sleep ==
    /\ pc = "sleep"
    /\ clock_ms' = clock_ms + MESSAGE_TIMESPAN
    /\ ticks' = ticks + 1
    /\ pc' = IF WhileTrue THEN "tick" ELSE "prompt"
    /\ UNCHANGED <<CONNECTION_STRING, sys_argv, SIMULATE_DATA, device_client, serial1, i,
                   exc, handler_entries, shutdown_calls, serial_opens, serial_reads,
                   last_line, format_log, send_log, msg, publish_calls, stdout, exit_code>>

ExceptRetries ==
    /\ pc = "except"
    /\ handler_entries' = handler_entries + 1
    /\ stdout' = Console(stdout, "Unexpected error", exc.kind)
    /\ pc' = IF device_client = "connected" THEN "tick" ELSE "connect"
    /\ UNCHANGED <<CONNECTION_STRING, sys_argv, SIMULATE_DATA, device_client, serial1, i,
                   exc, shutdown_calls, serial_opens, serial_reads, last_line, format_log,
                   send_log, msg, publish_calls, ticks, clock_ms, exit_code>>

\* Lines 56-59: the except clause of main; device_client is unbound when
\* create_from_connection_string raised.
Except ==
    /\ pc = "except"
    /\ handler_entries' = handler_entries + 1
    /\ pc' = "exited"
    /\ IF device_client = "unbound"
       THEN /\ stdout' = Console(stdout, "Unexpected error", exc.kind)
            /\ exc' = [kind |-> "UnboundLocalError", origin |-> exc.origin]
            /\ shutdown_calls' = shutdown_calls
            /\ exit_code' = <<1>>
       ELSE /\ stdout' = Console(Console(stdout, "Unexpected error", exc.kind),
                                 "Shutting down device client", "")
            /\ exc' = exc
            /\ shutdown_calls' = shutdown_calls + 1
            /\ exit_code' = <<0>>
    /\ UNCHANGED <<CONNECTION_STRING, sys_argv, SIMULATE_DATA, device_client, serial1, i,
                   serial_opens, serial_reads, last_line, format_log, send_log, msg,
                   publish_calls, ticks, clock_ms>>

\* Line 96: an operator interrupt while asyncio.run(main()) is connecting,
\* warming up, streaming or sleeping.
Interrupt ==
    /\ pc \in {"connect", "warmup", "tick", "sleep"}
    /\ Raise("KeyboardInterrupt", "interrupt")
    /\ UNCHANGED <<CONNECTION_STRING, sys_argv, SIMULATE_DATA, device_client, serial1, i,
                   handler_entries, shutdown_calls, serial_opens, serial_reads,
                   last_line, format_log, send_log, msg, publish_calls, ticks, clock_ms,
                   stdout>>

Next ==
    \/ ModuleLevel
    \/ MainStart
    \/ Connect
    \/ WarmupIteration
    \/ Tick
    \/ Sleep
    \/ Except
    \/ Interrupt

Spec == Init /\ [][Next]_vars

NextValidator == ModuleLevel

SpecValidator == InitValidator /\ [][NextValidator]_vars

----------------------------------------------------------------------------
(* Vocabulary of the properties *)

Printed(line) == \E k \in 1..Len(stdout) : stdout[k].line = line

IsAt(s, j, w) == /\ j + Len(w) - 1 <= Len(s)
                 /\ SubSeq(s, j, j + Len(w) - 1) = w

Separator == <<";">> \o DeviceIdEq

\* s contains HostName=X;DeviceId=Y; with X and Y of at least minLen
\* characters; with sameLine, the whole occurrence holds no line break.
ContainsFields(s, minLen, sameLine) ==
    \E a \in 1..Len(s) :
       /\ IsAt(s, a, HostNameEq)
       /\ \E b \in (a + Len(HostNameEq) + minLen)..Len(s) :
             /\ IsAt(s, b, Separator)
             /\ \E c \in (b + Len(Separator) + minLen)..Len(s) :
                   /\ s[c] = ";"
                   /\ sameLine => \A q \in a..c : s[q] # "\n"

CaseInsensitiveTrue(a) ==
    /\ Len(a) = 4
    /\ a[1] \in {"t", "T"}
    /\ a[2] \in {"r", "R"}
    /\ a[3] \in {"u", "U"}
    /\ a[4] \in {"e", "E"}

RejectedAtStartup ==
    \/ ~CONNECTION_STRING.present
    \/ ~re_search(ConnectionStringPattern, CONNECTION_STRING.value)

ListedFaults == {"serial_open", "serial_read", "format", "connect"}

----------------------------------------------------------------------------
(* C1 *)

\* C1: when the connection string is absent or fails the check, the process
\* prints the 'not correct' diagnostic and ends with exit code 0, having
\* created no client, attempted no connect, opened no serial device and
\* called send_data zero times.
C1_RejectionExitsCleanly ==
    (pc # "module" /\ RejectedAtStartup) =>
        /\ pc = "exited"
        /\ exit_code = <<0>>
        /\ Printed("Device connection string is not correct.")
        /\ device_client = "unbound"
        /\ serial_opens = 0
        /\ send_log = <<>>

----------------------------------------------------------------------------
(* C2 *)

\* C2: a serial open failure, serial read failure, formatter error or connect
\* failure is caught exactly once by the except clause of main, which prints
\* the generic error line, requests shutdown of the client and lets the
\* process end; after the fault no tick runs, no record is obtained or sent
\* and nothing is retried.
C2_FaultsHandledOnce ==
    /\ [](exc.origin \in ListedFaults =>
            /\ pc \in {"except", "exited"}
            /\ handler_entries = (IF pc = "exited" THEN 1 ELSE 0)
            /\ pc = "exited" =>
                  /\ Printed("Unexpected error")
                  /\ stdout[Len(stdout)].line = "Shutting down device client"
                  /\ shutdown_calls = 1
                  /\ exit_code = <<0>>)
    /\ [][exc.origin \in ListedFaults =>
            /\ pc' = "exited"
            /\ UNCHANGED <<ticks, serial_opens, serial_reads, format_log, send_log,
                           publish_calls, msg, device_client, clock_ms>>]_vars

C2_Witness ==
    /\ exc.origin = "format"
    /\ pc = "exited"
    /\ shutdown_calls = 1

----------------------------------------------------------------------------
(* C3 *)

\* C3: every tick calls send_data once with the tick's record; each call
\* prints the record, builds the utf-8 / application/json envelope and calls
\* the client's send_message once, so publishes equal completed ticks.
C3_PublishOncePerTick ==
    /\ pc = "tick" => Len(send_log) = ticks
    /\ pc = "sleep" => Len(send_log) = ticks + 1
    /\ send_log # <<>> =>
          /\ msg = Envelope(send_log[Len(send_log)].data)
          /\ Printed("telemetry_data")
    /\ publish_calls = Len(send_log)

----------------------------------------------------------------------------
(* C4 *)

\* C4: in live mode, after connect succeeded, exactly 15 lines are read and
\* discarded, unformatted and unsent, before the sending loop starts; the
\* first line given to format_message is the 16th read, and each tick reads
\* one line and gives exactly that line to format_message.
C4_WarmupDiscardsFifteen ==
    /\ serial_reads > 0 => (device_client = "connected" /\ SIMULATE_DATA = "False")
    /\ pc = "warmup" =>
          /\ serial_reads = i
          /\ i < 15
          /\ format_log = <<>>
          /\ send_log = <<>>
    /\ (pc = "tick" /\ SIMULATE_DATA = "False") => serial_reads = 15 + Len(format_log)
    /\ format_log # <<>> =>
          /\ serial_reads = 15 + Len(format_log)
          /\ format_log[Len(format_log)].arg = last_line
    /\ \A k \in 1..Len(format_log) : format_log[k].read = 15 + k

C4_Witness ==
    /\ Len(format_log) = 1
    /\ format_log[1].read = 16
    /\ serial_reads = 16

----------------------------------------------------------------------------
(* C5 *)

\* C5: the mode is fixed once at startup: simulation iff the argument is
\* absent or equals "true" case-insensitively; in simulated mode the serial
\* device is never opened or read and every record comes from the mock
\* generator.
C5_ModeFixedAtStartup ==
    /\ [](SIMULATE_DATA # "unbound" =>
            /\ SIMULATE_DATA \in {"True", "False"}
            /\ (SIMULATE_DATA = "True") <=>
                  (Len(sys_argv) = 1 \/ CaseInsensitiveTrue(sys_argv[2]))
            /\ SIMULATE_DATA = "True" =>
                  /\ serial_opens = 0
                  /\ serial_reads = 0
                  /\ serial1 = 0
                  /\ format_log = <<>>
                  /\ pc = "tick" => Len(send_log) = ticks
                  /\ \A k \in 1..Len(send_log) :
                        /\ send_log[k].source = "mock"
                        /\ send_log[k].data \in generate_mock_temp_hum_data)
    /\ [][SIMULATE_DATA # "unbound" => SIMULATE_DATA' = SIMULATE_DATA]_vars

C5_Witness ==
    /\ SIMULATE_DATA = "True"
    /\ Len(sys_argv) = 2
    /\ sys_argv[2] = <<"T", "R", "U", "E">>
    /\ ticks = 2

----------------------------------------------------------------------------
(* C6 *)

\* C6 as stated: the validator accepts a string iff it contains
\* HostName=X;DeviceId=Y; with X and Y each non-empty.
C6_AcceptsIffNonEmptyFields ==
    (pc # "module" /\ CONNECTION_STRING.present) =>
        (Printed("Device connection string is correct.")
            <=> ContainsFields(CONNECTION_STRING.value, 1, FALSE))

\* C6 as amended: the validator accepts a string iff it contains, on one
\* line, HostName=X;DeviceId=Y; where X and Y may be empty.
C6_AcceptsIffFieldsOnOneLine ==
    (pc # "module" /\ CONNECTION_STRING.present) =>
        /\ Printed("Device connection string is correct.")
              <=> ContainsFields(CONNECTION_STRING.value, 0, TRUE)
        /\ Printed("Device connection string is not correct.")
              <=> ~ContainsFields(CONNECTION_STRING.value, 0, TRUE)

C6_Witness ==
    /\ pc = "main"
    /\ CONNECTION_STRING = Present(HostNameEq \o <<";">> \o DeviceIdEq \o <<";">>)
    /\ Printed("Device connection string is correct.")

----------------------------------------------------------------------------
(* C7 *)

\* C7: format_message applied to a line read from the sensor returns the
\* record {gas, co2, tvoc} of the first three comma-separated fields when
\* the line has at least three fields, and signals an error otherwise.
C7_FormatsSensorLines ==
    \A k \in 1..Len(format_log) :
       LET e == format_log[k]
           fields == str_split(e.arg.chars, ",")
       IN  IF Len(fields) >= 3
           THEN /\ e.result.exc = "none"
                /\ e.result.value = [gas |-> fields[1], co2 |-> fields[2], tvoc |-> fields[3]]
           ELSE e.result.exc # "none"

----------------------------------------------------------------------------
(* C8 *)

\* C8: an operator interrupt while connecting, streaming or sleeping reaches
\* the except clause of main: the generic error line is printed and
\* shutdown of the client is requested before the process ends.
C8_InterruptTakesFailurePath ==
    (exc.origin = "interrupt" /\ pc = "exited") =>
        /\ handler_entries = 1
        /\ Printed("Unexpected error")
        /\ shutdown_calls = 1

----------------------------------------------------------------------------
(* C9 *)

\* C9: in a live run the serial device is opened exactly once, before the
\* first read, and every read uses that one handle: the number of serial
\* opens never exceeds 1.
C9_SerialOpenedOnce ==
    /\ serial_opens <= 1
    /\ serial_reads > 0 => serial1 = 1
    /\ \A k \in 1..Len(format_log) : format_log[k].handle = 1

----------------------------------------------------------------------------
(* C10 *)

\* C10: streaming starts only once connect succeeded (nothing is obtained,
\* printed or sent before); the loop never returns normally: a tick is
\* followed by a 2000 ms sleep and the sleep by another tick unless a fault
\* or interrupt occurs, so the prompt after the loop is never reached.
C10_LoopNeverReturns ==
    /\ [](pc # "prompt")
    /\ [](pc \in {"warmup", "tick", "sleep"} => device_client = "connected")
    /\ [](device_client # "connected" =>
            /\ send_log = <<>>
            /\ format_log = <<>>
            /\ serial_reads = 0
            /\ ticks = 0
            /\ ~Printed("telemetry_data"))
    /\ [](clock_ms = 2000 * ticks)
    /\ [][pc = "tick" => (pc' = "sleep" \/ exc' # exc)]_vars
    /\ [][pc = "sleep" => (pc' = "tick" \/ exc'.origin = "interrupt")]_vars

C10_Witness ==
    /\ pc = "tick"
    /\ ticks = 2
    /\ Len(send_log) = 2

====
